---- MODULE Spec2Model ----
(***************************************************************************)
(* LedMatrix (src/src/ledmatrix.cpp): the logical matrix, the hardware     *)
(* matrix derived from it by doBlink(), the blink membership masks of the  *)
(* speed classes and their phase timers, and the public operations.        *)
(*                                                                         *)
(* A uint32_t word of a matrix row is the set of its set bit positions     *)
(* (a subset of 0..31); |, & ~ and << are union, difference and a shift    *)
(* that drops what leaves the 32 bits.  An unsigned long millisecond value *)
(* is a pair of 16-bit limbs [hi, lo], with arithmetic modulo 2^32.        *)
(***************************************************************************)
EXTENDS Integers, Sequences, FiniteSets, TLC

(***************************************************************************)
(* Constants of ledmatrix.hpp and ledmatrix.cpp                            *)
(***************************************************************************)
LED_ROWS == 8
LED_COLS == 32
NO_OF_SPEED_CLASSES == 2
BLINK_NORMAL == 0
BLINK_SLOW == 1
CHAR_ERROR == 11
WORD_BITS == 32
BLINK_VERSATZ == 447
SEGMENT_CHARS == 29

BLINK_INTERVAL_BRIGHT == <<1000, 2000>>
BLINK_INTERVAL_DARK == <<1000, 6000>>

segmentBits ==
  <<63, 6, 91, 79, 102, 109, 125, 7, 127, 111,
    0, 73, 54, 119, 124, 57, 94, 121, 113, 54,
    56, 92, 115, 80, 62, 28, 64, 99, 88>>

Rows == 0 .. (LED_ROWS - 1)
Classes == 0 .. (NO_OF_SPEED_CLASSES - 1)
WordBits == 0 .. (WORD_BITS - 1)

(***************************************************************************)
(* Fixed-width arithmetic                                                  *)
(***************************************************************************)
Pow2(n) == 2 ^ n

\* conversion of an int expression to a uint8_t parameter
U8(n) == n % 256

\* the set bits of an 8-bit value
Bits8(n) == {i \in 0 .. 7 : (n \div Pow2(i)) % 2 = 1}

\* uint32_t w << n for n < 32
Shl(w, n) == {b + n : b \in w} \cap WordBits

\* the 8-bit value held by bits n .. n+7 of word w: (w >> n) & 0xFF
RECURSIVE SumPow(_)
SumPow(s) == IF s = {} THEN 0
             ELSE LET i == CHOOSE x \in s : TRUE IN Pow2(i) + SumPow(s \ {i})
Span8(w, n) == SumPow({i \in 0 .. 7 : (i + n) \in w})

LIMB == 65536
U32(n) == [hi |-> 0, lo |-> n]
Add32(a, b) ==
  LET l == a.lo + b.lo IN
  [hi |-> (a.hi + b.hi + (l \div LIMB)) % LIMB, lo |-> l % LIMB]
Sub32(a, b) ==
  LET l == a.lo - b.lo
      borrow == IF l < 0 THEN 1 ELSE 0 IN
  [hi |-> (a.hi - b.hi - borrow) % LIMB, lo |-> l % LIMB]
Gt32(a, b) == a.hi > b.hi \/ (a.hi = b.hi /\ a.lo > b.lo)


(***************************************************************************)
(* State                                                                   *)
(***************************************************************************)
VARIABLES
  matrix,             \* uint32_t matrix[LED_ROWS]: the logical matrix
  hwMatrix,           \* uint32_t hwMatrix[LED_ROWS]: what display() shifts out
  blinkStatus,        \* uint32_t blinkStatus[NO_OF_SPEED_CLASSES][LED_ROWS]
  isBlinkDarkPhase,   \* bool isBlinkDarkPhase[NO_OF_SPEED_CLASSES]
  blinkStartTime,     \* unsigned long blinkStartTime[NO_OF_SPEED_CLASSES]
  nextBlinkInterval,  \* unsigned long nextBlinkInterval[NO_OF_SPEED_CLASSES]
  millis,             \* the value millis() returns now
  call,               \* the last step of the sketch: a call and its result, or a pause
  pre,                \* the object's state when that call was entered
  rep,                \* the call before it was the same call with the same arguments
  pre2,               \* if rep: the object's state when that earlier call was entered
  pc,                 \* the position of the calling sketch
  pins,               \* the levels of the output pins CLOCK, DATA_IN, STRB, OE
  log,                \* the writes to the pins of the running, or last, display()
                      \* for the row it shifts out, or shifted out last
                      \* (<<pin, level>>)
  strobed,            \* the rows the running, or last, display() has finished
  pos                 \* the position inside a running display()

obj == <<matrix, hwMatrix, blinkStatus, isBlinkDarkPhase, blinkStartTime,
         nextBlinkInterval>>
vars == <<matrix, hwMatrix, blinkStatus, isBlinkDarkPhase, blinkStartTime,
          nextBlinkInterval, millis, call, pre, rep, pre2, pc,
          pins, log, strobed, pos>>
\* what only initHardware() and display() write or move
wire == <<pins, log, strobed, pos>>

\* the object's fields, and the clock, as one value
Snapshot ==
  [matrix |-> matrix, hwMatrix |-> hwMatrix, blinkStatus |-> blinkStatus,
   isBlinkDarkPhase |-> isBlinkDarkPhase, blinkStartTime |-> blinkStartTime,
   nextBlinkInterval |-> nextBlinkInterval, millis |-> millis]

Call(op, row, col, arg, flag, ret) ==
  [op |-> op, row |-> row, col |-> col, arg |-> arg, flag |-> flag, ret |-> ret]

(***************************************************************************)
(* Private helpers of LedMatrix                                            *)
(***************************************************************************)
\* '0' is not taken for a digit: > 48 in place of >= 48
get7SegIndexAfterZero(character) ==
  IF character >= SEGMENT_CHARS
  THEN IF character > 48 /\ character <= 57
       THEN character - 48
       ELSE CHAR_ERROR
  ELSE character

\* the index at which get7SegBits reads segmentBits
get7SegIndex(character) ==
  IF character >= SEGMENT_CHARS
  THEN IF character >= 48 /\ character <= 57
       THEN character - 48
       ELSE CHAR_ERROR
  ELSE character

get7SegBits(character) == segmentBits[get7SegIndex(character) + 1]

\* the column bound is off by one
isValidRowColOffByOne(row, col) == row < LED_ROWS /\ col <= LED_COLS

isValidRowCol(row, col) == row < LED_ROWS /\ col < LED_COLS

isValidBlinkSpeed(blinkSpeed) == blinkSpeed < NO_OF_SPEED_CLASSES

\* only the first column of the digit is checked
isValidSpanStartOnly(row, col0) == isValidRowCol(row, col0)

\* the guard of the three 7-segment operations: both ends of the span are
\* checked, the upper end after conversion of col0 + 7 to uint8_t
isValidSpan(row, col0) == isValidRowCol(row, col0) /\ isValidRowCol(row, U8(col0 + 7))

(***************************************************************************)
(* The operations as functions of the fields they read                     *)
(***************************************************************************)
isLedOnRet(m, row, col) ==
  IF isValidRowCol(row, col) THEN Shl({0}, col) \cap m[row] # {} ELSE FALSE

\* 1 << col in a 16-bit int, without the cast to uint32_t
ledOnMatrixInt16(m, row, col) ==
  IF isValidRowCol(row, col)
  THEN [m EXCEPT ![row] = @ \cup (Shl({0}, col) \cap (0 .. 15))]
  ELSE m

\* ^= in place of |=
ledOnMatrixXor(m, row, col) ==
  IF isValidRowCol(row, col)
  THEN [m EXCEPT ![row] = (@ \cup Shl({0}, col)) \ (@ \cap Shl({0}, col))]
  ELSE m

ledOnRet(row, col) == IF isValidRowCol(row, col) THEN 0 ELSE -1
ledOnMatrix(m, row, col) ==
  IF isValidRowCol(row, col)
  THEN [m EXCEPT ![row] = @ \cup Shl({0}, col)]
  ELSE m

\* &= without the complement
ledOffMatrixNoComplement(m, row, col) ==
  IF isValidRowCol(row, col)
  THEN [m EXCEPT ![row] = @ \cap Shl({0}, col)]
  ELSE m

ledOffRet(row, col) == IF isValidRowCol(row, col) THEN 0 ELSE -1
ledOffMatrix(m, row, col) ==
  IF isValidRowCol(row, col)
  THEN [m EXCEPT ![row] = @ \ Shl({0}, col)]
  ELSE m

\* the branches of the test of isLedOn are swapped
ledToggleMatrixSwapped(m, row, col) ==
  IF row >= LED_ROWS \/ col >= LED_COLS
  THEN m
  ELSE IF isLedOnRet(m, row, col)
       THEN ledOnMatrix(m, row, col)
       ELSE ledOffMatrix(m, row, col)

ledToggleRet(row, col) == IF row >= LED_ROWS \/ col >= LED_COLS THEN -1 ELSE 0
ledToggleMatrix(m, row, col) ==
  IF row >= LED_ROWS \/ col >= LED_COLS
  THEN m
  ELSE IF isLedOnRet(m, row, col)
       THEN ledOffMatrix(m, row, col)
       ELSE ledOnMatrix(m, row, col)

\* the bit is set in every class: the test of blinkSpeed is missing
ledBlinkOnStatusAllClasses(bs, row, col, blinkSpeed) ==
  IF isValidRowCol(row, col) /\ isValidBlinkSpeed(blinkSpeed)
  THEN [c \in Classes |-> [bs[c] EXCEPT ![row] = @ \cup Shl({0}, col)]]
  ELSE bs

ledBlinkOnRet(row, col, blinkSpeed) ==
  IF isValidRowCol(row, col) /\ isValidBlinkSpeed(blinkSpeed) THEN 0 ELSE -1
ledBlinkOnStatus(bs, row, col, blinkSpeed) ==
  IF isValidRowCol(row, col) /\ isValidBlinkSpeed(blinkSpeed)
  THEN [bs EXCEPT ![blinkSpeed][row] = @ \cup Shl({0}, col)]
  ELSE bs

ledBlinkOffRet(row, col, blinkSpeed) ==
  IF isValidRowCol(row, col) /\ isValidBlinkSpeed(blinkSpeed) THEN 0 ELSE -1
ledBlinkOffStatus(bs, row, col, blinkSpeed) ==
  IF isValidRowCol(row, col) /\ isValidBlinkSpeed(blinkSpeed)
  THEN [bs EXCEPT ![blinkSpeed][row] = @ \ Shl({0}, col)]
  ELSE bs

\* the speed class is not validated
isLedBlinkOnRetAnySpeed(bs, row, col, blinkSpeed) ==
  IF isValidRowCol(row, col)
  THEN IF isValidBlinkSpeed(blinkSpeed) /\ Shl({0}, col) \cap bs[blinkSpeed][row] # {}
       THEN 1
       ELSE 0
  ELSE -1

isLedBlinkOnRet(bs, row, col, blinkSpeed) ==
  IF isValidRowCol(row, col) /\ isValidBlinkSpeed(blinkSpeed)
  THEN IF Shl({0}, col) \cap bs[blinkSpeed][row] # {} THEN 1 ELSE 0
  ELSE -1

\* the digit is not cleared before the pattern is written
set7SegValueMatrixMerged(m, row, col0, newValue, dpOn) ==
  IF isValidSpan(row, col0)
  THEN LET written == [m EXCEPT
                         ![row] = @ \cup Shl(Bits8(get7SegBits(newValue)), col0)]
       IN IF dpOn
          THEN ledOnMatrix(written, row, U8(col0 + 7))
          ELSE ledOffMatrix(written, row, U8(col0 + 7))
  ELSE m

\* the pattern is not shifted to col0
set7SegValueMatrixNoShift(m, row, col0, newValue, dpOn) ==
  IF isValidSpan(row, col0)
  THEN LET cleared == [m EXCEPT ![row] = @ \ Shl(Bits8(255), col0)]
           written == [cleared EXCEPT ![row] = @ \cup Bits8(get7SegBits(newValue))]
       IN IF dpOn
          THEN ledOnMatrix(written, row, U8(col0 + 7))
          ELSE ledOffMatrix(written, row, U8(col0 + 7))
  ELSE m

set7SegValueRet(row, col0) == IF isValidSpan(row, col0) THEN 0 ELSE -1
set7SegValueMatrix(m, row, col0, newValue, dpOn) ==
  IF isValidSpan(row, col0)
  THEN LET cleared == [m EXCEPT ![row] = @ \ Shl(Bits8(255), col0)]
           written == [cleared EXCEPT
                         ![row] = @ \cup Shl(Bits8(get7SegBits(newValue)), col0)]
       IN IF dpOn
          THEN ledOnMatrix(written, row, U8(col0 + 7))
          ELSE ledOffMatrix(written, row, U8(col0 + 7))
  ELSE m

set7SegBlinkOnRet(row, col0, blinkSpeed) ==
  IF isValidSpan(row, col0) /\ isValidBlinkSpeed(blinkSpeed) THEN 0 ELSE -1
set7SegBlinkOnStatus(bs, row, col0, dpBlink, blinkSpeed) ==
  IF isValidSpan(row, col0) /\ isValidBlinkSpeed(blinkSpeed)
  THEN IF dpBlink
       THEN [bs EXCEPT ![blinkSpeed][row] = @ \cup Shl(Bits8(255), col0)]
       ELSE [bs EXCEPT ![blinkSpeed][row] = @ \cup Shl(Bits8(127), col0)]
  ELSE bs

\* dpBlink is ignored: the decimal point is always cleared
set7SegBlinkOffStatusWithPoint(bs, row, col0, dpBlink, blinkSpeed) ==
  IF isValidSpan(row, col0) /\ isValidBlinkSpeed(blinkSpeed)
  THEN [bs EXCEPT ![blinkSpeed][row] = @ \ Shl(Bits8(255), col0)]
  ELSE bs

set7SegBlinkOffRet(row, col0, blinkSpeed) ==
  IF isValidSpan(row, col0) /\ isValidBlinkSpeed(blinkSpeed) THEN 0 ELSE -1
set7SegBlinkOffStatus(bs, row, col0, dpBlink, blinkSpeed) ==
  IF isValidSpan(row, col0) /\ isValidBlinkSpeed(blinkSpeed)
  THEN IF dpBlink
       THEN [bs EXCEPT ![blinkSpeed][row] = @ \ Shl(Bits8(255), col0)]
       ELSE [bs EXCEPT ![blinkSpeed][row] = @ \ Shl(Bits8(127), col0)]
  ELSE bs

(***************************************************************************)
(* LedMatrix::doBlink()                                                    *)
(***************************************************************************)
\* lines 203-214: the scan of blinkStatus, class by class and row by row,
\* that stops at the first word that is not zero
RECURSIVE scanBlinkOn(_, _, _)
scanBlinkOn(bs, speedClass, row) ==
  IF speedClass = NO_OF_SPEED_CLASSES THEN FALSE
  ELSE IF row = LED_ROWS THEN scanBlinkOn(bs, speedClass + 1, 0)
  ELSE IF bs[speedClass][row] # {} THEN TRUE
  ELSE scanBlinkOn(bs, speedClass, row + 1)

blinkOn(bs) == scanBlinkOn(bs, 0, 0)

\* line 222: the interval of the class has run out
intervalOver(now, start, interval) == Gt32(Sub32(now, start), interval)

\* the check of line 221 left out: the phase is flipped whenever the interval
\* has run out
phaseDarkAlways(on, now, dark, start, interval) ==
  IF intervalOver(now, start, interval) THEN ~dark ELSE dark

\* lines 219-232: the three timer fields of one class after the check
phaseDark(on, now, dark, start, interval) ==
  IF on /\ intervalOver(now, start, interval) THEN ~dark ELSE dark

phaseStart(on, now, start, interval) ==
  IF on /\ intervalOver(now, start, interval) THEN now ELSE start

phaseInterval(on, now, dark, start, interval, speedClass) ==
  IF on /\ intervalOver(now, start, interval)
  THEN IF dark
       THEN U32(BLINK_INTERVAL_BRIGHT[speedClass + 1])
       ELSE U32(BLINK_INTERVAL_DARK[speedClass + 1])
  ELSE interval

\* lines 240-244: the bits of one row that the classes in their dark phase blank
RECURSIVE darkBits(_, _, _, _)
darkBits(bs, dark, row, speedClass) ==
  IF speedClass = NO_OF_SPEED_CLASSES THEN {}
  ELSE (IF dark[speedClass] THEN bs[speedClass][row] ELSE {})
       \cup darkBits(bs, dark, row, speedClass + 1)

\* the dark phase of the normal class alone blanks LEDs
hwRowNormalOnly(m, bs, dark, on, row) ==
  IF on /\ dark[BLINK_NORMAL] THEN m[row] \ bs[BLINK_NORMAL][row] ELSE m[row]

\* lines 237-245: one row of hwMatrix
hwRow(m, bs, dark, on, row) ==
  IF on THEN m[row] \ darkBits(bs, dark, row, 0) ELSE m[row]

\* the loop ends one row early
hwRowsButLast(hw, m, bs, dark, on) ==
  [row \in Rows |->
     IF row = LED_ROWS - 1 THEN hw[row] ELSE hwRow(m, bs, dark, on, row)]

\* lines 236-246: hwMatrix after the loop over all rows
\* only the first row is rebuilt
hwRowsOnlyFirst(hw, m, bs, dark, on) ==
  [row \in Rows |-> IF row = 0 THEN hwRow(m, bs, dark, on, row) ELSE hw[row]]

hwRows(hw, m, bs, dark, on) == [row \in Rows |-> hwRow(m, bs, dark, on, row)]

(***************************************************************************)
(* display(): shifting hwMatrix out                                        *)
(***************************************************************************)
\* not inside display()
Idle == [at |-> "idle", loop |-> "", row |-> 0, bit |-> 0]

\* (word >> n) & 1
bitAt(word, n) == IF n \in word THEN 1 ELSE 0

\* uint8_t activeRow = 1 << row
activeRow(row) == Bits8(U8(Pow2(row)))

\* word >> bit in place of word >> (bit - 1)
shiftedBitOffByOne(word, bit) == bitAt(word, bit)

\* (word >> (bit - 1)) & 1
shiftedBit(word, bit) == bitAt(word, bit - 1)

\* one of the two for loops: for each bit, from the highest, the bit on
\* DATA_IN and a pulse on CLOCK
shiftWrites(word, bits) ==
  [i \in 1 .. 3 * bits |->
     LET bit == bits - ((i - 1) \div 3)
     IN CASE (i - 1) % 3 = 0 -> <<"DATA_IN", shiftedBit(word, bit)>>
          [] (i - 1) % 3 = 1 -> <<"CLOCK", 1>>
          [] OTHER -> <<"CLOCK", 0>>]

\* the byte of the row is not shifted out
rowWritesColumnsOnly(word, row) ==
  <<<<"STRB", 0>>>> \o shiftWrites(word, WORD_BITS) \o <<<<"STRB", 1>>>>

\* the body of the loop over the rows
rowWrites(word, row) ==
  <<<<"STRB", 0>>>> \o shiftWrites(word, WORD_BITS)
    \o shiftWrites(activeRow(row), 8) \o <<<<"STRB", 1>>>>

\* digitalWrite(pin, level) inside display()
digitalWrite(pin, level) ==
  /\ pins' = [pins EXCEPT ![pin] = level]
  /\ log' = Append(log, <<pin, level>>)

\* bookkeeping of a call: the record, the state at entry, the repetition
Record(c) ==
  /\ call' = c
  /\ pre' = Snapshot
  /\ rep' = (c = call)
  /\ pre2' = IF c = call THEN pre ELSE Snapshot

(***************************************************************************)
(* LedMatrix::LedMatrix()                                                  *)
(***************************************************************************)
\* the test pattern of the constructor is not commented out (row 1 of it)
ConstructedWithPattern ==
  /\ millis = U32(0)
  /\ matrix = [row \in Rows |-> IF row = 1 THEN {4, 9, 10, 22} ELSE {}]
  /\ hwMatrix = [row \in Rows |-> {}]
  /\ blinkStatus = [speedClass \in Classes |-> [row \in Rows |-> {}]]
  /\ isBlinkDarkPhase = [speedClass \in Classes |-> TRUE]
  /\ blinkStartTime =
       [speedClass \in Classes |-> Add32(millis, U32(speedClass * BLINK_VERSATZ))]
  /\ nextBlinkInterval =
       [speedClass \in Classes |-> U32(BLINK_INTERVAL_BRIGHT[speedClass + 1])]
  /\ call = Call("LedMatrix", 0, 0, 0, FALSE, 0)
  /\ pre = Snapshot
  /\ rep = FALSE
  /\ pre2 = Snapshot
  /\ pins = [CLOCK |-> 0, DATA_IN |-> 0, STRB |-> 0, OE |-> 0]
  /\ log = <<>>
  /\ strobed = <<>>
  /\ pos = Idle

Constructed ==
  /\ millis = U32(0)
  /\ matrix = [row \in Rows |-> {}]
  /\ hwMatrix = [row \in Rows |-> {}]
  /\ blinkStatus = [speedClass \in Classes |-> [row \in Rows |-> {}]]
  /\ isBlinkDarkPhase = [speedClass \in Classes |-> TRUE]
  /\ blinkStartTime =
       [speedClass \in Classes |-> Add32(millis, U32(speedClass * BLINK_VERSATZ))]
  /\ nextBlinkInterval =
       [speedClass \in Classes |-> U32(BLINK_INTERVAL_BRIGHT[speedClass + 1])]
  /\ call = Call("LedMatrix", 0, 0, 0, FALSE, 0)
  /\ pre = Snapshot
  /\ rep = FALSE
  /\ pre2 = Snapshot
  /\ pins = [CLOCK |-> 0, DATA_IN |-> 0, STRB |-> 0, OE |-> 0]
  /\ log = <<>>
  /\ strobed = <<>>
  /\ pos = Idle

Init == Constructed /\ pc = "loop"

(***************************************************************************)
(* The public operations, one action per call                              *)
(***************************************************************************)
ledOn(row, col) ==
  /\ matrix' = ledOnMatrix(matrix, row, col)
  /\ Record(Call("ledOn", row, col, 0, FALSE, ledOnRet(row, col)))
  /\ UNCHANGED <<hwMatrix, blinkStatus, isBlinkDarkPhase, blinkStartTime,
                 nextBlinkInterval, millis>>
  /\ UNCHANGED wire

ledOff(row, col) ==
  /\ matrix' = ledOffMatrix(matrix, row, col)
  /\ Record(Call("ledOff", row, col, 0, FALSE, ledOffRet(row, col)))
  /\ UNCHANGED <<hwMatrix, blinkStatus, isBlinkDarkPhase, blinkStartTime,
                 nextBlinkInterval, millis>>
  /\ UNCHANGED wire

ledToggle(row, col) ==
  /\ matrix' = ledToggleMatrix(matrix, row, col)
  /\ Record(Call("ledToggle", row, col, 0, FALSE, ledToggleRet(row, col)))
  /\ UNCHANGED <<hwMatrix, blinkStatus, isBlinkDarkPhase, blinkStartTime,
                 nextBlinkInterval, millis>>
  /\ UNCHANGED wire

ledBlinkOn(row, col, blinkSpeed) ==
  /\ blinkStatus' = ledBlinkOnStatus(blinkStatus, row, col, blinkSpeed)
  /\ Record(Call("ledBlinkOn", row, col, blinkSpeed, FALSE,
                 ledBlinkOnRet(row, col, blinkSpeed)))
  /\ UNCHANGED <<matrix, hwMatrix, isBlinkDarkPhase, blinkStartTime,
                 nextBlinkInterval, millis>>
  /\ UNCHANGED wire

ledBlinkOff(row, col, blinkSpeed) ==
  /\ blinkStatus' = ledBlinkOffStatus(blinkStatus, row, col, blinkSpeed)
  /\ Record(Call("ledBlinkOff", row, col, blinkSpeed, FALSE,
                 ledBlinkOffRet(row, col, blinkSpeed)))
  /\ UNCHANGED <<matrix, hwMatrix, isBlinkDarkPhase, blinkStartTime,
                 nextBlinkInterval, millis>>
  /\ UNCHANGED wire

\* arg is newValue, flag is dpOn
set7SegValue(row, col0, newValue, dpOn) ==
  /\ matrix' = set7SegValueMatrix(matrix, row, col0, newValue, dpOn)
  /\ Record(Call("set7SegValue", row, col0, newValue, dpOn,
                 set7SegValueRet(row, col0)))
  /\ UNCHANGED <<hwMatrix, blinkStatus, isBlinkDarkPhase, blinkStartTime,
                 nextBlinkInterval, millis>>
  /\ UNCHANGED wire

\* arg is blinkSpeed, flag is dpBlink
set7SegBlinkOn(row, col0, dpBlink, blinkSpeed) ==
  /\ blinkStatus' = set7SegBlinkOnStatus(blinkStatus, row, col0, dpBlink, blinkSpeed)
  /\ Record(Call("set7SegBlinkOn", row, col0, blinkSpeed, dpBlink,
                 set7SegBlinkOnRet(row, col0, blinkSpeed)))
  /\ UNCHANGED <<matrix, hwMatrix, isBlinkDarkPhase, blinkStartTime,
                 nextBlinkInterval, millis>>
  /\ UNCHANGED wire

set7SegBlinkOff(row, col0, dpBlink, blinkSpeed) ==
  /\ blinkStatus' = set7SegBlinkOffStatus(blinkStatus, row, col0, dpBlink, blinkSpeed)
  /\ Record(Call("set7SegBlinkOff", row, col0, blinkSpeed, dpBlink,
                 set7SegBlinkOffRet(row, col0, blinkSpeed)))
  /\ UNCHANGED <<matrix, hwMatrix, isBlinkDarkPhase, blinkStartTime,
                 nextBlinkInterval, millis>>
  /\ UNCHANGED wire

\* display(): doBlink(), then the rows of hwMatrix are shifted out
\* doBlink(): the phases of the classes, then hwMatrix
doBlink ==
  LET on == blinkOn(blinkStatus)
      dark == [speedClass \in Classes |->
                 phaseDark(on, millis, isBlinkDarkPhase[speedClass],
                           blinkStartTime[speedClass], nextBlinkInterval[speedClass])]
  IN /\ isBlinkDarkPhase' = dark
     /\ blinkStartTime' =
          [speedClass \in Classes |->
             phaseStart(on, millis, blinkStartTime[speedClass],
                        nextBlinkInterval[speedClass])]
     /\ nextBlinkInterval' =
          [speedClass \in Classes |->
             phaseInterval(on, millis, isBlinkDarkPhase[speedClass],
                           blinkStartTime[speedClass], nextBlinkInterval[speedClass],
                           speedClass)]
     /\ hwMatrix' = hwRows(hwMatrix, matrix, blinkStatus, dark, on)

\* display() from call to return
display ==
  /\ pos = Idle
  /\ doBlink
  /\ pins' = [pins EXCEPT !["STRB"] = 1, !["CLOCK"] = 0,
                          !["DATA_IN"] = bitAt(activeRow(LED_ROWS - 1), 0)]
  /\ log' = rowWrites(hwMatrix'[LED_ROWS - 1], LED_ROWS - 1)
  /\ strobed' = [i \in 1 .. LED_ROWS |-> i - 1]
  /\ Record(Call("display", 0, 0, 0, FALSE, 0))
  /\ UNCHANGED <<matrix, blinkStatus, millis, pos>>

\* display() in steps: doBlink() first, then one write to a pin per step
displayEnter ==
  /\ pos = Idle
  /\ doBlink
  /\ pos' = [at |-> "strobeLow", loop |-> "", row |-> 0, bit |-> 0]
  /\ strobed' = <<>>
  /\ log' = <<>>
  /\ Record(Call("display", 0, 0, 0, FALSE, 0))
  /\ UNCHANGED <<matrix, blinkStatus, millis, pins>>

\* digitalWrite(STRB, LOW): the writes for a new row begin
displayStrobeLow ==
  /\ pos.at = "strobeLow"
  /\ pins' = [pins EXCEPT !["STRB"] = 0]
  /\ log' = <<<<"STRB", 0>>>>
  /\ pos' = [pos EXCEPT !.at = "data", !.loop = "col", !.bit = WORD_BITS]
  /\ UNCHANGED <<obj, millis, call, pre, rep, pre2, strobed>>

\* digitalWrite(DATA_IN, ...) of the loop over the column bits, or of the
\* loop over the bits of activeRow
displayData ==
  /\ pos.at = "data"
  /\ digitalWrite("DATA_IN",
                  shiftedBit(IF pos.loop = "col"
                             THEN hwMatrix[pos.row]
                             ELSE activeRow(pos.row), pos.bit))
  /\ pos' = [pos EXCEPT !.at = "clockHigh"]
  /\ UNCHANGED <<obj, millis, call, pre, rep, pre2, strobed>>

\* digitalWrite(CLOCK, HIGH)
displayClockHigh ==
  /\ pos.at = "clockHigh"
  /\ digitalWrite("CLOCK", 1)
  /\ pos' = [pos EXCEPT !.at = "clockLow"]
  /\ UNCHANGED <<obj, millis, call, pre, rep, pre2, strobed>>

\* the falling edge left out: CLOCK stays high when the loop goes on
displayClockLowMissing ==
  /\ pos.at = "clockLow"
  /\ pos' = IF pos.bit - 1 # 0
            THEN [pos EXCEPT !.at = "data", !.bit = pos.bit - 1]
            ELSE IF pos.loop = "col"
                 THEN [pos EXCEPT !.at = "data", !.loop = "row", !.bit = 8]
                 ELSE [pos EXCEPT !.at = "strobeHigh", !.loop = "", !.bit = 0]
  /\ UNCHANGED <<obj, millis, call, pre, rep, pre2, strobed, pins, log>>

\* digitalWrite(CLOCK, LOW), --bit and the test of the for loop
displayClockLow ==
  /\ pos.at = "clockLow"
  /\ digitalWrite("CLOCK", 0)
  /\ pos' = IF pos.bit - 1 # 0
            THEN [pos EXCEPT !.at = "data", !.bit = pos.bit - 1]
            ELSE IF pos.loop = "col"
                 THEN [pos EXCEPT !.at = "data", !.loop = "row", !.bit = 8]
                 ELSE [pos EXCEPT !.at = "strobeHigh", !.loop = "", !.bit = 0]
  /\ UNCHANGED <<obj, millis, call, pre, rep, pre2, strobed>>

\* the end of a row waits for CLOCK to be high, which no step of display()
\* brings about at this point
displayStrobeHighWaits ==
  /\ pos.at = "strobeHigh"
  /\ pins["CLOCK"] = 1
  /\ digitalWrite("STRB", 1)
  /\ strobed' = Append(strobed, pos.row)
  /\ pos' = IF pos.row + 1 # LED_ROWS
            THEN [pos EXCEPT !.at = "strobeLow", !.row = pos.row + 1]
            ELSE Idle
  /\ UNCHANGED <<obj, millis, call, pre, rep, pre2>>

\* digitalWrite(STRB, HIGH), ++row and the test of the loop over the rows
displayStrobeHigh ==
  /\ pos.at = "strobeHigh"
  /\ digitalWrite("STRB", 1)
  /\ strobed' = Append(strobed, pos.row)
  /\ pos' = IF pos.row + 1 # LED_ROWS
            THEN [pos EXCEPT !.at = "strobeLow", !.row = pos.row + 1]
            ELSE Idle
  /\ UNCHANGED <<obj, millis, call, pre, rep, pre2>>

displayStep ==
  \/ displayStrobeLow
  \/ displayData
  \/ displayClockHigh
  \/ displayClockLow
  \/ displayStrobeHigh

\* the delays of initHardware() in ms: three times 500 + 500, 1, twice 0.5
INIT_DELAY == 3002

\* initHardware(): blinks the built-in LED, then sets the lines
initHardware ==
  /\ pos = Idle
  /\ pins' = [CLOCK |-> 0, DATA_IN |-> 0, STRB |-> 1, OE |-> 0]
  /\ millis' = Add32(millis, U32(INIT_DELAY))
  /\ Record(Call("initHardware", 0, 0, 0, FALSE, 0))
  /\ UNCHANGED <<obj, log, strobed, pos>>

\* the queries: bool isLedOn as 0 or 1, like the int of isLedBlinkOn
isLedOn(row, col) ==
  /\ Record(Call("isLedOn", row, col, 0, FALSE,
                 IF isLedOnRet(matrix, row, col) THEN 1 ELSE 0))
  /\ UNCHANGED <<matrix, hwMatrix, blinkStatus, isBlinkDarkPhase, blinkStartTime,
                 nextBlinkInterval, millis>>
  /\ UNCHANGED wire

isLedBlinkOn(row, col, blinkSpeed) ==
  /\ Record(Call("isLedBlinkOn", row, col, blinkSpeed, FALSE,
                 isLedBlinkOnRet(blinkStatus, row, col, blinkSpeed)))
  /\ UNCHANGED <<matrix, hwMatrix, blinkStatus, isBlinkDarkPhase, blinkStartTime,
                 nextBlinkInterval, millis>>
  /\ UNCHANGED wire

\* a call of get7SegBits
lookup7SegBits(character) ==
  /\ Record(Call("get7SegBits", 0, 0, character, FALSE, get7SegBits(character)))
  /\ UNCHANGED <<matrix, hwMatrix, blinkStatus, isBlinkDarkPhase, blinkStartTime,
                 nextBlinkInterval, millis>>
  /\ UNCHANGED wire

\* the rest of loop(): time passes between two calls (arg is the time in ms)
timePasses(ms) ==
  /\ millis' = Add32(millis, U32(ms))
  /\ Record(Call("timePasses", 0, 0, ms, FALSE, 0))
  /\ UNCHANGED <<matrix, hwMatrix, blinkStatus, isBlinkDarkPhase, blinkStartTime,
                 nextBlinkInterval>>
  /\ UNCHANGED wire

(***************************************************************************)
(* The sketch calls the operations in any order.  Arguments are drawn from *)
(* the sets below; time passes in pauses between calls.                    *)
(***************************************************************************)
MaxPauses == 1
PAUSE == 1001

mayPause(n) == millis.hi = 0 /\ millis.lo + PAUSE <= n * PAUSE

\* one LED, which is the decimal point of the one digit
LedArgs == {<<1, 15>>}
DigitArgs == {<<1, 8>>}
\* a code of the table, an ASCII digit, and a code that is neither
GlyphArgs == {7, 55, 200}

Next ==
  /\ pc = "loop"
  /\ UNCHANGED pc
  /\ \/ \E p \in LedArgs : ledOn(p[1], p[2])
     \/ \E p \in LedArgs : ledOff(p[1], p[2])
     \/ \E p \in LedArgs : ledToggle(p[1], p[2])
     \/ \E p \in LedArgs, sp \in Classes : ledBlinkOn(p[1], p[2], sp)
     \/ \E p \in LedArgs, sp \in Classes : ledBlinkOff(p[1], p[2], sp)
     \/ \E p \in DigitArgs, g \in GlyphArgs, dp \in BOOLEAN :
          set7SegValue(p[1], p[2], g, dp)
     \/ \E p \in DigitArgs, dp \in BOOLEAN, sp \in Classes :
          set7SegBlinkOn(p[1], p[2], dp, sp)
     \/ \E p \in DigitArgs, dp \in BOOLEAN, sp \in Classes :
          set7SegBlinkOff(p[1], p[2], dp, sp)
     \/ display
     \/ mayPause(MaxPauses) /\ timePasses(PAUSE)

Spec == Init /\ [][Next]_vars

(***************************************************************************)
(* A sketch that only switches single LEDs and their blinking, and         *)
(* refreshes the display, with more time passing                           *)
(***************************************************************************)
MaxBlinkPauses == 3
BlinkLedArgs == {<<0, LED_COLS - 1>>, <<LED_ROWS - 1, 0>>}

NextBlink ==
  /\ pc = "loop"
  /\ UNCHANGED pc
  /\ \/ \E p \in BlinkLedArgs : ledOn(p[1], p[2])
     \/ \E p \in BlinkLedArgs : ledOff(p[1], p[2])
     \/ \E p \in BlinkLedArgs, sp \in Classes : ledBlinkOn(p[1], p[2], sp)
     \/ \E p \in BlinkLedArgs, sp \in Classes : ledBlinkOff(p[1], p[2], sp)
     \/ display
     \/ mayPause(MaxBlinkPauses) /\ timePasses(PAUSE)

SpecBlink == Init /\ [][NextBlink]_vars

(***************************************************************************)
(* A sketch that lights one LED, lets it blink in one speed class and      *)
(* refreshes the display three times, pausing before each refresh          *)
(***************************************************************************)
AllLeds == {<<row, col>> : row \in Rows, col \in 0 .. (LED_COLS - 1)}
\* before a late first refresh
FirstPauses == {300, 446, 447, 1000, 1001, 2447, 2448, 5000}
\* between the refreshes: more than the longest phase of the normal class
LongPauses == {1001, 1500}

InitCycle == Constructed /\ pc = "begin"

NextCycle ==
  \/ /\ pc = "begin"
     /\ \E p \in AllLeds : ledOn(p[1], p[2])
     /\ pc' = "lit"
  \/ /\ pc = "lit"
     /\ \E sp \in Classes : ledBlinkOn(call.row, call.col, sp)
     /\ pc' = "blinking"
  \/ /\ pc = "blinking"
     /\ display
     /\ pc' = "shown1"
  \/ /\ pc = "shown1"
     /\ \E ms \in LongPauses : timePasses(ms)
     /\ pc' = "wait2"
  \/ /\ pc = "wait2"
     /\ display
     /\ pc' = "shown2"
  \/ /\ pc = "shown2"
     /\ \E ms \in LongPauses : timePasses(ms)
     /\ pc' = "wait3"
  \/ /\ pc = "wait3"
     /\ display
     /\ pc' = "shown3"
  \/ /\ pc = "blinking"
     /\ \E ms \in FirstPauses : timePasses(ms)
     /\ pc' = "waited"
  \/ /\ pc = "waited"
     /\ display
     /\ pc' = "shownLate"

SpecCycle == InitCycle /\ [][NextCycle]_vars

(***************************************************************************)
(* A sketch that fills both ends of the matrix, lets parts of it blink,    *)
(* refreshes the display and then makes one call, with arguments from the  *)
(* whole range of their types, and makes the same call once more           *)
(***************************************************************************)
Bytes == 0 .. 255
ProbeRows == {0, LED_ROWS - 1, LED_ROWS, 255}
ProbeSpeeds == {BLINK_NORMAL, BLINK_SLOW, NO_OF_SPEED_CLASSES, 255}
\* every value where the digit fits, one value where it does not
ProbeGlyphs(row, col0) ==
  IF row \in Rows /\ col0 + 7 < LED_COLS THEN Bytes ELSE {55}

InitProbe == Constructed /\ pc = "setup1"

NextProbe ==
  \/ /\ pc = "setup1"
     /\ set7SegValue(0, 0, 56, TRUE)
     /\ pc' = "setup2"
  \/ /\ pc = "setup2"
     /\ set7SegValue(LED_ROWS - 1, LED_COLS - 8, 56, TRUE)
     /\ pc' = "setup3"
  \/ /\ pc = "setup3"
     /\ \E sp \in Classes : ledBlinkOn(0, 0, sp)
     /\ pc' = "setup4"
  \/ /\ pc = "setup4"
     /\ set7SegBlinkOn(LED_ROWS - 1, LED_COLS - 8, FALSE, BLINK_SLOW)
     /\ pc' = "setup5"
  \/ /\ pc = "setup5"
     /\ display
     /\ pc' = "ready"
  \/ /\ pc = "ready"
     /\ pc' = "probed"
     /\ \/ \E row \in ProbeRows, col \in Bytes : ledOn(row, col)
        \/ \E row \in ProbeRows, col \in Bytes : ledOff(row, col)
        \/ \E row \in ProbeRows, col \in Bytes : ledToggle(row, col)
        \/ \E row \in ProbeRows, col \in Bytes, sp \in ProbeSpeeds :
             ledBlinkOn(row, col, sp)
        \/ \E row \in ProbeRows, col \in Bytes, sp \in ProbeSpeeds :
             ledBlinkOff(row, col, sp)
        \/ \E row \in ProbeRows, col0 \in Bytes, dp \in BOOLEAN :
             \E g \in ProbeGlyphs(row, col0) : set7SegValue(row, col0, g, dp)
        \/ \E row \in ProbeRows, col0 \in Bytes, dp \in BOOLEAN, sp \in ProbeSpeeds :
             set7SegBlinkOn(row, col0, dp, sp)
        \/ \E row \in ProbeRows, col0 \in Bytes, dp \in BOOLEAN, sp \in ProbeSpeeds :
             set7SegBlinkOff(row, col0, dp, sp)
        \/ \E row \in ProbeRows, col \in Bytes : isLedOn(row, col)
        \/ \E row \in ProbeRows, col \in Bytes, sp \in ProbeSpeeds :
             isLedBlinkOn(row, col, sp)
        \/ \E character \in Bytes : lookup7SegBits(character)

  \/ /\ pc = "probed"
     /\ pc' = "repeated"
     /\ \/ call.op = "ledOn" /\ ledOn(call.row, call.col)
        \/ call.op = "ledOff" /\ ledOff(call.row, call.col)
        \/ call.op = "ledToggle" /\ ledToggle(call.row, call.col)
        \/ call.op = "ledBlinkOn" /\ ledBlinkOn(call.row, call.col, call.arg)
        \/ call.op = "ledBlinkOff" /\ ledBlinkOff(call.row, call.col, call.arg)
        \/ call.op = "set7SegValue"
             /\ set7SegValue(call.row, call.col, call.arg, call.flag)
        \/ call.op = "set7SegBlinkOn"
             /\ set7SegBlinkOn(call.row, call.col, call.flag, call.arg)
        \/ call.op = "set7SegBlinkOff"
             /\ set7SegBlinkOff(call.row, call.col, call.flag, call.arg)
        \/ call.op = "isLedOn" /\ isLedOn(call.row, call.col)
        \/ call.op = "isLedBlinkOn" /\ isLedBlinkOn(call.row, call.col, call.arg)
        \/ call.op = "get7SegBits" /\ lookup7SegBits(call.arg)

SpecProbe == InitProbe /\ [][NextProbe]_vars

(***************************************************************************)
(* A sketch that sets up the lines or not, writes a digit, refreshes the   *)
(* display, makes one more call and refreshes the display again; of the    *)
(* last refresh, or of a refresh right after the set-up, every write to a  *)
(* pin is a step                                                           *)
(***************************************************************************)
ShiftDigitArgs == {<<2, 8>>, <<LED_ROWS - 1, LED_COLS - 8>>}
ShiftLedArgs == {<<2, 15>>}
ShiftGlyphArgs == {8, 200}

InitShift == Constructed /\ pc = "begin"

NextShift ==
  \/ /\ pc = "begin"
     /\ initHardware
     /\ pc' = "init"
  \/ /\ pc \in {"begin", "init"}
     /\ \E p \in ShiftDigitArgs, dp \in BOOLEAN : set7SegValue(p[1], p[2], 55, dp)
     /\ pc' = "written"
  \/ /\ pc = "written"
     /\ display
     /\ pc' = "refreshed"
  \/ /\ pc = "refreshed"
     /\ pc' = "changed"
     /\ \/ \E p \in ShiftLedArgs : ledOn(p[1], p[2])
        \/ \E p \in ShiftLedArgs : ledOff(p[1], p[2])
        \/ \E p \in ShiftLedArgs : ledToggle(p[1], p[2])
        \/ \E p \in ShiftLedArgs, sp \in Classes : ledBlinkOn(p[1], p[2], sp)
        \/ \E p \in ShiftLedArgs, sp \in Classes : ledBlinkOff(p[1], p[2], sp)
        \/ \E g \in ShiftGlyphArgs : set7SegValue(2, 8, g, TRUE)
        \/ \E dp \in BOOLEAN, sp \in Classes : set7SegBlinkOn(2, 8, dp, sp)
        \/ \E dp \in BOOLEAN, sp \in Classes : set7SegBlinkOff(2, 8, dp, sp)
  \/ /\ pc \in {"begin", "init", "changed"}
     /\ displayEnter
     /\ pc' = "shifting"
  \/ /\ pc = "shifting"
     /\ displayStep
     /\ pc' = IF pos' = Idle THEN "returned" ELSE "shifting"

SpecShift == InitShift /\ [][NextShift]_vars

\* the next write of a display() that has begun; nothing but the processor
\* going on to the next statement is needed for it
displayRuns ==
  /\ pc = "shifting"
  /\ displayStep
  /\ pc' = IF pos' = Idle THEN "returned" ELSE "shifting"

\* the same sketch on a processor that does not halt inside display()
SpecShiftFair == InitShift /\ [][NextShift]_vars /\ WF_vars(displayRuns)

(***************************************************************************)
(* A sketch that lights one LED, lets it blink or not, refreshes the       *)
(* display after a pause, stops the blinking or not, pauses again for a    *)
(* short or a very long time, refreshes the display and then makes one     *)
(* call of any operation                                                   *)
(***************************************************************************)
\* no time, just over a phase of each class, and up to some 23 days
IdlePauses == {0, 1001, 6001, 70000, 2000000000}

InitIdle == Constructed /\ pc = "begin"

NextIdle ==
  \/ /\ pc = "begin"
     /\ \E p \in LedArgs : ledOn(p[1], p[2])
     /\ pc' = "lit"
  \/ /\ pc = "lit"
     /\ \E p \in LedArgs, sp \in Classes : ledBlinkOn(p[1], p[2], sp)
     /\ pc' = "blinking"
  \/ /\ pc = "blinking"
     /\ \E ms \in IdlePauses : timePasses(ms)
     /\ pc' = "waited"
  \/ /\ pc = "waited"
     /\ display
     /\ pc' = "shown"
  \/ /\ pc = "shown"
     /\ \E p \in LedArgs, sp \in Classes : ledBlinkOff(p[1], p[2], sp)
     /\ pc' = "stopped"
  \/ /\ pc \in {"lit", "stopped"}
     /\ \E ms \in IdlePauses : timePasses(ms)
     /\ pc' = "rested"
  \/ /\ pc = "rested"
     /\ display
     /\ pc' = "frozen"
  \/ /\ pc \in {"shown", "frozen"}
     /\ pc' = "called"
     /\ \/ \E p \in LedArgs : ledOn(p[1], p[2])
        \/ \E p \in LedArgs : ledOff(p[1], p[2])
        \/ \E p \in LedArgs : ledToggle(p[1], p[2])
        \/ \E p \in LedArgs, sp \in Classes : ledBlinkOn(p[1], p[2], sp)
        \/ \E p \in LedArgs, sp \in Classes : ledBlinkOff(p[1], p[2], sp)
        \/ \E p \in DigitArgs, g \in GlyphArgs, dp \in BOOLEAN :
             set7SegValue(p[1], p[2], g, dp)
        \/ \E p \in DigitArgs, dp \in BOOLEAN, sp \in Classes :
             set7SegBlinkOn(p[1], p[2], dp, sp)
        \/ \E p \in DigitArgs, dp \in BOOLEAN, sp \in Classes :
             set7SegBlinkOff(p[1], p[2], dp, sp)
        \/ \E p \in LedArgs : isLedOn(p[1], p[2])
        \/ \E p \in LedArgs, sp \in Classes : isLedBlinkOn(p[1], p[2], sp)
        \/ \E g \in GlyphArgs : lookup7SegBits(g)
        \/ initHardware
        \/ \E ms \in IdlePauses : timePasses(ms)

SpecIdle == InitIdle /\ [][NextIdle]_vars

(***************************************************************************)
(* Properties                                                              *)
(***************************************************************************)
\* the LEDs (row, col) whose bit is set in the rows m
LitLeds(m) == {p \in AllLeds : p[2] \in m[p[1]]}

\* the speed classes whose membership mask holds (row, col)
ClassesOf(row, col) == {c \in Classes : col \in blinkStatus[c][row]}

\* no LED is a member of any speed class in the masks bs
NoMember(bs) == \A c \in Classes, row \in Rows : bs[c][row] = {}

\* C1: after every refresh, a bit of hwMatrix is set if and only if the bit
\* of matrix is set and no speed class that holds the position in its mask
\* is in its dark phase.
PhysicalIsLogicalMinusDark ==
  call.op = "display" =>
    \A row \in Rows, col \in 0 .. (LED_COLS - 1) :
      (col \in hwMatrix[row]) <=>
        /\ col \in matrix[row]
        /\ \A c \in ClassesOf(row, col) : ~isBlinkDarkPhase[c]

\* a refresh has shown, of two lit LEDs, the one of the slow class only while
\* the normal class is dark, and has blanked one that is in both classes
WitnessCrossClass ==
  /\ call.op = "display"
  /\ isBlinkDarkPhase[BLINK_NORMAL] /\ ~isBlinkDarkPhase[BLINK_SLOW]
  /\ \E p \in LitLeds(matrix), q \in LitLeds(matrix) :
       /\ ClassesOf(p[1], p[2]) = {BLINK_SLOW}
       /\ p \in LitLeds(hwMatrix)
       /\ ClassesOf(q[1], q[2]) = Classes
       /\ q \notin LitLeds(hwMatrix)

\* C2: a refresh in a state where all membership masks are zero leaves
\* hwMatrix equal to matrix in every row, whatever the time and the timers.
NoBlinkPassthrough ==
  (call.op = "display" /\ NoMember(pre.blinkStatus)) => hwMatrix = matrix

\* a refresh without any member copied lit LEDs, at a time when both
\* classes were in the dark phase with their intervals long run out
WitnessPassthrough ==
  /\ call.op = "display"
  /\ NoMember(pre.blinkStatus)
  /\ LitLeds(matrix) # {}
  /\ hwMatrix = matrix
  /\ pre.hwMatrix # matrix
  /\ \A c \in Classes :
       /\ pre.isBlinkDarkPhase[c]
       /\ intervalOver(pre.millis, pre.blinkStartTime[c], pre.nextBlinkInterval[c])

\* C3: a lit LED that is a member of the normal class only is shown by a
\* refresh made immediately after the class's phase-start, not shown by the
\* next refresh more than 1000 ms later, and shown again by the next
\* refresh after more than a further 1000 ms.
BlinkPhaseToggling ==
  \A p \in LitLeds(matrix) :
    ClassesOf(p[1], p[2]) = {BLINK_NORMAL} =>
      /\ (pc = "shown1" /\ pre.millis = pre.blinkStartTime[BLINK_NORMAL])
           => p \in LitLeds(hwMatrix)
      /\ pc = "shown2" => p \notin LitLeds(hwMatrix)
      /\ pc = "shown3" => p \in LitLeds(hwMatrix)

\* C4: in the first refresh after construction that finds an LED blinking,
\* every speed class is in its bright phase when hwMatrix is built, however
\* much time has passed since construction.
FirstBlinkRefreshIsBright ==
  pc \in {"shown1", "shownLate"} => \A c \in Classes : ~isBlinkDarkPhase[c]

\* the operations that change the object, by the arguments they take
LedOps == {"ledOn", "ledOff", "ledToggle"}
LedBlinkOps == {"ledBlinkOn", "ledBlinkOff"}
DigitBlinkOps == {"set7SegBlinkOn", "set7SegBlinkOff"}
DigitOps == {"set7SegValue"} \cup DigitBlinkOps
Mutators == LedOps \cup LedBlinkOps \cup DigitOps

\* what the last call left of the state it found
MatrixKept == matrix = pre.matrix
HwKept == hwMatrix = pre.hwMatrix
MasksKept == blinkStatus = pre.blinkStatus
TimersKept ==
  /\ isBlinkDarkPhase = pre.isBlinkDarkPhase
  /\ blinkStartTime = pre.blinkStartTime
  /\ nextBlinkInterval = pre.nextBlinkInterval

\* the row and column of the last call lie in the matrix
CallInMatrix == call.row < LED_ROWS /\ call.col < LED_COLS
\* the eight columns of the digit of the last call lie in the matrix
CallDigitInMatrix == call.row < LED_ROWS /\ call.col + 7 < LED_COLS
\* the last call names a speed class
CallSpeedValid == call.arg < NO_OF_SPEED_CLASSES

\* C5: with a row or column out of range, or an invalid speed class, every
\* mutating operation returns -1 and leaves matrix, hwMatrix, the
\* membership masks and the phase and timer variables unchanged.
RejectsOutOfRange ==
  ( /\ call.op \in Mutators
    /\ \/ ~CallInMatrix
       \/ call.op \in (LedBlinkOps \cup DigitBlinkOps) /\ ~CallSpeedValid )
  => /\ call.ret = -1
     /\ MatrixKept /\ HwKept /\ MasksKept /\ TimersKept

\* a blink call for an LED of the matrix with speed class 255 was rejected,
\* in a state with lit LEDs, members and a refreshed display
WitnessRejected ==
  /\ call.op = "ledBlinkOn" /\ CallInMatrix /\ call.arg = 255
  /\ call.ret = -1
  /\ LitLeds(matrix) # {} /\ LitLeds(hwMatrix) # {} /\ ~NoMember(blinkStatus)

\* C6: for a valid row and a col0 in 0..255 whose span col0..col0+7 is not
\* inside the matrix, the three 7-segment operations return -1 and change
\* no bit, also where col0 + 7 exceeds 255 and wraps to a valid column.
RejectsDigitSpan ==
  ( /\ call.op \in DigitOps
    /\ call.row < LED_ROWS
    /\ call.col > LED_COLS - 8 )
  => /\ call.ret = -1
     /\ MatrixKept /\ HwKept /\ MasksKept /\ TimersKept

\* a digit whose first column is 249, so that col0 + 7 wraps to column 0,
\* was rejected for a row whose bits 0..7 are lit
WitnessDigitWrap ==
  /\ call.op = "set7SegValue" /\ call.row = 0 /\ call.col = 249
  /\ call.ret = -1
  /\ Span8(matrix[0], 0) = 255

\* C7: for a valid (row, col), after ledOn isLedOn(row, col) is true, after
\* ledOff it is false, and both calls return 0.
SetThenQuery ==
  /\ (call.op = "ledOn" /\ CallInMatrix)
       => call.ret = 0 /\ isLedOnRet(matrix, call.row, call.col)
  /\ (call.op = "ledOff" /\ CallInMatrix)
       => call.ret = 0 /\ ~isLedOnRet(matrix, call.row, call.col)

\* ledOn lit an LED of the upper half of a row that was off
WitnessSetThenQuery ==
  /\ call.op = "ledOn" /\ CallInMatrix /\ call.col >= 16
  /\ ~isLedOnRet(pre.matrix, call.row, call.col)
  /\ isLedOnRet(matrix, call.row, call.col)

\* C8: for a valid (row, col), ledToggle inverts the bit of matrix, and a
\* second ledToggle right after it restores matrix, hwMatrix and the masks.
ToggleTwiceRestores ==
  (call.op = "ledToggle" /\ CallInMatrix) =>
    /\ (call.col \in matrix[call.row]) # (call.col \in pre.matrix[call.row])
    /\ rep => /\ matrix = pre2.matrix
              /\ hwMatrix = pre2.hwMatrix
              /\ blinkStatus = pre2.blinkStatus

\* a lit LED was toggled off and on again
WitnessToggleTwice ==
  /\ call.op = "ledToggle" /\ CallInMatrix /\ rep
  /\ call.col \in pre2.matrix[call.row]
  /\ call.col \notin pre.matrix[call.row]
  /\ call.col \in matrix[call.row]

\* a | b of two 8-bit values
Or8(a, b) == SumPow(Bits8(a) \cup Bits8(b))

\* C9: for a digit inside the matrix, after set7SegValue the bits
\* col0..col0+7 of the row are exactly get7SegBits(glyph) | (dp << 7),
\* whatever they were before.
DigitWriteExact ==
  (call.op = "set7SegValue" /\ CallDigitInMatrix) =>
    Span8(matrix[call.row], call.col)
      = Or8(get7SegBits(call.arg), IF call.flag THEN 128 ELSE 0)

\* a digit with all eight bits lit was overwritten by '7' without the point
WitnessDigitOverwritten ==
  /\ call.op = "set7SegValue" /\ CallDigitInMatrix
  /\ call.arg = 55 /\ ~call.flag
  /\ Span8(pre.matrix[call.row], call.col) = 255
  /\ Span8(matrix[call.row], call.col) = 7

\* the bits (row, bit) in which the last call changed matrix
ChangedBits ==
  {p \in Rows \X WordBits : (p[2] \in matrix[p[1]]) # (p[2] \in pre.matrix[p[1]])}

\* C10: for valid arguments ledOn, ledOff and ledToggle change at most the
\* bit (row, col) of matrix and set7SegValue at most the bits col0..col0+7
\* of the row; hwMatrix, the masks and the timers are unchanged.
MutatorsChangeOnlyTarget ==
  /\ (call.op \in LedOps /\ CallInMatrix) =>
       /\ ChangedBits \subseteq {<<call.row, call.col>>}
       /\ HwKept /\ MasksKept /\ TimersKept
  /\ (call.op = "set7SegValue" /\ CallDigitInMatrix) =>
       /\ ChangedBits \subseteq {<<call.row, c>> : c \in call.col .. (call.col + 7)}
       /\ HwKept /\ MasksKept /\ TimersKept

\* set7SegValue changed bits of a row that has lit bits beside the digit
WitnessOnlyTarget ==
  /\ call.op = "set7SegValue" /\ CallDigitInMatrix
  /\ ChangedBits # {}
  /\ matrix[call.row] \ (call.col .. (call.col + 7)) # {}
  /\ LitLeds(hwMatrix) # {} /\ ~NoMember(blinkStatus)

\* C11: for valid arguments a second ledOn(row, col) right after the first
\* returns the same value and leaves the complete state as the first call
\* left it, and so does a second ledBlinkOn(row, col, class).
SecondCallChangesNothing ==
  ( /\ pc = "repeated"
    /\ \/ call.op = "ledOn" /\ CallInMatrix
       \/ call.op = "ledBlinkOn" /\ CallInMatrix /\ CallSpeedValid )
  => /\ rep
     /\ MatrixKept /\ HwKept /\ MasksKept /\ TimersKept

\* ledOn lit an LED that was off, and was called once more
WitnessSecondLedOn ==
  /\ pc = "repeated" /\ call.op = "ledOn" /\ CallInMatrix /\ rep
  /\ call.col \notin pre2.matrix[call.row]
  /\ call.col \in pre.matrix[call.row]
  /\ call.col \in matrix[call.row]

\* the bits (class, row, bit) in which the last call changed the masks
ChangedMembers ==
  {t \in Classes \X Rows \X WordBits :
     (t[3] \in blinkStatus[t[1]][t[2]]) # (t[3] \in pre.blinkStatus[t[1]][t[2]])}

\* C12: for valid arguments ledBlinkOn(row, col, c) sets and
\* ledBlinkOff(row, col, c) clears the bit (row, col) of the mask of class
\* c, and no other bit of any mask, of matrix or of hwMatrix changes.
BlinkMembershipPerClass ==
  (call.op \in LedBlinkOps /\ CallInMatrix /\ CallSpeedValid) =>
    /\ (call.col \in blinkStatus[call.arg][call.row]) <=> (call.op = "ledBlinkOn")
    /\ ChangedMembers \subseteq {<<call.arg, call.row, call.col>>}
    /\ MatrixKept /\ HwKept

\* an LED that is a member of the slow class became a member of the normal
\* class as well
WitnessSecondClass ==
  /\ call.op = "ledBlinkOn" /\ CallInMatrix /\ call.arg = BLINK_NORMAL
  /\ ChangedMembers = {<<BLINK_NORMAL, call.row, call.col>>}
  /\ call.col \in blinkStatus[BLINK_SLOW][call.row]

\* C13: for a digit inside the matrix and a speed class c, set7SegBlinkOn
\* sets and set7SegBlinkOff clears the bits col0..col0+6 of the mask of c,
\* and the bit col0+7 as well exactly when dpBlink is true; with dpBlink
\* false that bit keeps its value; no other bit of any mask and no bit of
\* matrix changes.
DigitBlinkWithPoint ==
  (call.op \in DigitBlinkOps /\ CallDigitInMatrix /\ CallSpeedValid) =>
    /\ \A c \in call.col .. (call.col + 6) :
         (c \in blinkStatus[call.arg][call.row]) <=> (call.op = "set7SegBlinkOn")
    /\ IF call.flag
       THEN ((call.col + 7) \in blinkStatus[call.arg][call.row])
              <=> (call.op = "set7SegBlinkOn")
       ELSE ((call.col + 7) \in blinkStatus[call.arg][call.row])
              <=> ((call.col + 7) \in pre.blinkStatus[call.arg][call.row])
    /\ ChangedMembers \subseteq
         {<<call.arg, call.row, c>> : c \in call.col .. (call.col + 7)}
    /\ MatrixKept

\* set7SegBlinkOff without the point cleared members of the slow class and
\* left the member at the place of the point
WitnessPointKept ==
  /\ call.op = "set7SegBlinkOff" /\ CallDigitInMatrix /\ ~call.flag
  /\ call.arg = BLINK_SLOW
  /\ ChangedMembers # {}
  /\ (call.col + 7) \in blinkStatus[BLINK_SLOW][call.row]

\* C14: isLedBlinkOn returns 1 for a member of the class, 0 for a
\* non-member and -1 exactly when the position or the speed class is out
\* of range; isLedOn returns the bit of matrix for a valid position and
\* false for every other; neither changes any state variable.
QueriesAnswerAndKeep ==
  /\ call.op = "isLedBlinkOn" =>
       /\ call.ret = IF ~CallInMatrix \/ ~CallSpeedValid
                     THEN -1
                     ELSE IF call.col \in blinkStatus[call.arg][call.row]
                          THEN 1
                          ELSE 0
       /\ MatrixKept /\ HwKept /\ MasksKept /\ TimersKept
  /\ call.op = "isLedOn" =>
       /\ call.ret = IF CallInMatrix /\ call.col \in matrix[call.row] THEN 1 ELSE 0
       /\ MatrixKept /\ HwKept /\ MasksKept /\ TimersKept

\* the query for a blinking LED of the matrix in a class that does not
\* exist was answered with -1
WitnessQueryBadClass ==
  /\ call.op = "isLedBlinkOn" /\ CallInMatrix
  /\ call.arg = NO_OF_SPEED_CLASSES
  /\ ClassesOf(call.row, call.col) # {}
  /\ call.ret = -1

\* C15: for every selector in 0..255 get7SegBits returns the table entry
\* of a selector below 29, the pattern of the digit selector - 48 for the
\* other selectors in 48..57 and the ERROR pattern for the rest; the table
\* is read at an index in 0..28 and the result has bit 7 clear.
FontLookupTotal ==
  call.op = "get7SegBits" =>
    /\ call.ret = IF call.arg < 29
                  THEN segmentBits[call.arg + 1]
                  ELSE IF call.arg \in 48 .. 57
                       THEN segmentBits[(call.arg - 48) + 1]
                       ELSE segmentBits[CHAR_ERROR + 1]
    /\ get7SegIndex(call.arg) \in 0 .. 28
    /\ call.ret < 128

\* the selector '0' gave the pattern of the digit 0
WitnessFontAsciiZero ==
  /\ call.op = "get7SegBits" /\ call.arg = 48
  /\ call.ret = 63

\* a state of the object in which every LED is off and no LED blinks
AllOff(st) ==
  /\ \A row \in Rows : st.matrix[row] = {} /\ st.hwMatrix[row] = {}
  /\ NoMember(st.blinkStatus)

\* C16: from the constructed all-off state, set7SegValue(2, 8, '7', false)
\* and then one refresh, with no LED blinking, leave in hwMatrix the
\* pattern 0b0000111 in bits 8..14 of row 2, bit 15 clear and every other
\* bit of every row zero.
EndToEndSeven ==
  [][ ( /\ pc = "written"
        /\ call = Call("set7SegValue", 2, 8, 55, FALSE, 0)
        /\ AllOff(pre)
        /\ pc' = "refreshed" )
      => /\ Span8(hwMatrix'[2], 8) = 7
         /\ hwMatrix'[2] \subseteq 8 .. 14
         /\ \A row \in Rows \ {2} : hwMatrix'[row] = {} ]_vars

\* the refresh after set7SegValue(2, 8, '7', false) has shown the 7
WitnessSevenShown ==
  /\ pc = "refreshed" /\ call.op = "display"
  /\ AllOff([pre EXCEPT !.matrix = [row \in Rows |-> {}]])
  /\ pre.matrix[2] = {8, 9, 10}
  /\ hwMatrix = [row \in Rows |-> IF row = 2 THEN {8, 9, 10} ELSE {}]

\* the writes to STRB and CLOCK among the writes l
Lines(l) == SelectSeq(l, LAMBDA e : e[1] # "DATA_IN")

\* STRB low, LED_COLS + 8 pulses of CLOCK, STRB high
Frame ==
  <<<<"STRB", 0>>>> \o [i \in 1 .. 2 * (LED_COLS + 8) |-> <<"CLOCK", i % 2>>]
    \o <<<<"STRB", 1>>>>

IsPrefix(a, b) == Len(a) <= Len(b) /\ a = SubSeq(b, 1, Len(a))

\* C17: every display() handles the rows 0..LED_ROWS-1 in ascending order
\* once each; for each row STRB is driven low, then come 32 pulses of CLOCK
\* for the column bits and 8 for the byte of the row, then STRB is driven
\* high; a pulse is a rise and then a fall; CLOCK is low whenever STRB
\* changes and STRB is high when the call returns.
FramingAndOrder ==
  /\ [](/\ IsPrefix(Lines(log), Frame)
        /\ IsPrefix(strobed, [i \in 1 .. LED_ROWS |-> i - 1])
        /\ pos # Idle => pos.row = Len(strobed)
        /\ (pos.at = "data" /\ pos.loop = "row" /\ pos.bit = 8)
             => Len(Lines(log)) = 1 + 2 * LED_COLS
        /\ (pos.at = "strobeHigh") => Len(Lines(log)) = 1 + 2 * (LED_COLS + 8)
        /\ (pos = Idle /\ call.op = "display")
             => /\ Len(strobed) = LED_ROWS
                /\ Lines(log) = Frame
                /\ pins["STRB"] = 1)
  /\ [][pins'["STRB"] # pins["STRB"] => pins["CLOCK"] = 0 /\ pins'["CLOCK"] = 0]_vars

\* a display() made in steps has returned after the last row
WitnessFrameDone ==
  /\ pc = "returned" /\ pos = Idle /\ call.op = "display"
  /\ strobed = [i \in 1 .. LED_ROWS |-> i - 1]
  /\ Len(log) = 2 + 3 * (LED_COLS + 8)

\* the level of DATA_IN at each rise of CLOCK among the writes l
Sampled(l) ==
  LET rises == {i \in DOMAIN l : l[i] = <<"CLOCK", 1>>}
      nth(k) == CHOOSE i \in rises : Cardinality({j \in rises : j < i}) = k - 1
      data(i) == LET w == {j \in 1 .. i : l[j][1] = "DATA_IN"}
                 IN IF w = {}
                    THEN -1
                    ELSE l[CHOOSE j \in w : \A x \in w : x <= j][2]
  IN [k \in 1 .. Cardinality(rises) |-> data(nth(k))]

\* the writes for a row are complete
RowDone == log # <<>> /\ log[Len(log)] = <<"STRB", 1>>

HwWrittenOnlyByRefresh ==
  /\ [](call.op \in Mutators => HwKept)
  /\ [](pos # Idle =>
          \A row \in Rows, col \in WordBits :
            (col \in hwMatrix[row]) <=>
              (col \in matrix[row] /\ \A c \in ClassesOf(row, col) : ~isBlinkDarkPhase[c]))
  /\ [][pos # Idle => hwMatrix' = hwMatrix]_vars

\* display() shifts out the last row of a hwMatrix that differs from the
\* one it found
WitnessSnapshotShifted ==
  /\ pos.at = "data" /\ pos.row = LED_ROWS - 1
  /\ hwMatrix # pre.hwMatrix
  /\ hwMatrix[2] # {}

\* C20: right after construction every bit of matrix, of hwMatrix and of
\* every mask is 0, and a refresh in that state sends 0 for every column
\* bit of every row.
InitialAllOff ==
  /\ call.op = "LedMatrix" => AllOff(Snapshot)
  /\ (call.op = "display" /\ AllOff(pre) /\ RowDone) =>
       \A i \in 1 .. LED_COLS : Sampled(log)[i] = 0

\* the refresh of the constructed object, made in steps, has returned
WitnessAllOffSent ==
  /\ pc = "returned" /\ AllOff(pre) /\ RowDone
  /\ pre.millis = U32(0)
  /\ \A i \in 1 .. LED_COLS : Sampled(log)[i] = 0

\* the milliseconds a counter value stands for
Ms(t) == t.hi * LIMB + t.lo

\* C21: a refresh flips the phase flag of a class if and only if some
\* membership bit is set in some class's mask and the time that has passed
\* since the class's own phase-start timestamp is strictly greater than the
\* class's threshold.
PhaseFlipRule ==
  call.op = "display" =>
    \A c \in Classes :
      (isBlinkDarkPhase[c] # pre.isBlinkDarkPhase[c]) <=>
        /\ ~NoMember(pre.blinkStatus)
        /\ Ms(pre.millis) - Ms(pre.blinkStartTime[c])
             > Ms(pre.nextBlinkInterval[c])

\* the configured duration of the phase a class is in
phaseDuration(dark, c) ==
  U32(IF dark THEN BLINK_INTERVAL_DARK[c + 1] ELSE BLINK_INTERVAL_BRIGHT[c + 1])

\* C22: in every state the threshold of each class is the configured
\* duration of the phase the class is in, the dark duration while its dark
\* flag is set and the bright duration while it is clear; and a refresh that
\* flips a class leaves the new phase's duration as the threshold and the
\* current time as the phase-start timestamp.
ThresholdMatchesPhase ==
  \A c \in Classes :
    /\ nextBlinkInterval[c] = phaseDuration(isBlinkDarkPhase[c], c)
    /\ (call.op = "display" /\ isBlinkDarkPhase[c] # pre.isBlinkDarkPhase[c])
         => blinkStartTime[c] = pre.millis

\* a number of milliseconds as a counter value, without reduction modulo 2^32
Limbs(n) == [hi |-> n \div LIMB, lo |-> n % LIMB]

\* C23: in every refresh that compares, the unsigned difference
\* millis() - blinkStartTime of each class is the number of milliseconds
\* that have really passed since the class's phase-start timestamp, the
\* constructor's timestamp with its offset of 447 ms per class included.
ElapsedIsRealTime ==
  (call.op = "display" /\ ~NoMember(pre.blinkStatus)) =>
    \A c \in Classes :
      Sub32(pre.millis, pre.blinkStartTime[c])
        = Limbs(Ms(pre.millis) - Ms(pre.blinkStartTime[c]))

\* C24: a refresh that finds every membership mask of every class empty
\* leaves the phase flag, the phase-start timestamp and the threshold of
\* every class as they were, however much time has passed; and no
\* operation other than the refresh changes any of the three.
TimersFrozen ==
  /\ (call.op = "display" /\ NoMember(pre.blinkStatus)) => TimersKept
  /\ call.op \notin {"display", "LedMatrix"} => TimersKept

\* nothing blinks any more, the normal class stopped in its bright phase and
\* its interval ran out long ago: the refresh has left the timers alone
WitnessFrozenOverdue ==
  /\ pc = "frozen" /\ call.op = "display"
  /\ NoMember(pre.blinkStatus)
  /\ ~pre.isBlinkDarkPhase[BLINK_NORMAL]
  /\ \A c \in Classes :
       intervalOver(pre.millis, pre.blinkStartTime[c], pre.nextBlinkInterval[c])
  /\ pre.millis.hi > 0
  /\ TimersKept

\* the writes to a pin that display() makes for one row
RowWrites == 2 + 3 * (LED_COLS + 8)

\* the writes to a pin that display() has still to make at the position p
WritesLeft(p) ==
  IF p = Idle THEN 0
  ELSE (LED_ROWS - 1 - p.row) * RowWrites
       + (CASE p.at = "strobeLow" -> RowWrites
            [] p.at = "strobeHigh" -> 1
            [] OTHER ->
                 3 * (p.bit + (IF p.loop = "col" THEN 8 ELSE 0)) + 1
                 - (CASE p.at = "data" -> 0
                      [] p.at = "clockHigh" -> 1
                      [] p.at = "clockLow" -> 2))

\* C25: a display() that has begun can always make its next step, has
\* LED_ROWS times (two writes of STRB and three writes for each of 40 pulses
\* of CLOCK) to make after the blink update, one fewer after each step
\* whatever the state of the matrix, and so returns to the loop that called
\* it.
DisplayAlwaysReturns ==
  /\ [](pos # Idle => pc = "shifting" /\ ENABLED displayRuns)
  /\ [][(pos = Idle /\ pos' # Idle) => WritesLeft(pos') = LED_ROWS * RowWrites]_vars
  /\ [][pos # Idle => (pos' # pos /\ WritesLeft(pos') = WritesLeft(pos) - 1)]_pos
  /\ (pos # Idle) ~> (pos = Idle /\ pc = "returned" /\ call.op = "display")

\* a display() begun after initHardware() and the change of a digit that
\* blinks has made its last write and returned
WitnessReturned ==
  /\ pc = "returned" /\ pos = Idle /\ call.op = "display"
  /\ WritesLeft(pos) = 0
  /\ ~NoMember(blinkStatus)
  /\ pins["STRB"] = 1 /\ Len(strobed) = LED_ROWS
  /\ millis = U32(INIT_DELAY)

\* C26: DATA_IN changes only while CLOCK is low and stays low; at every
\* rise of CLOCK the last write was the bit put on DATA_IN, which is still
\* there at the fall; and STRB is low at every edge of CLOCK and from the
\* first bit of a row until the write that drives it high.
DataStableWhileClocked ==
  /\ [][pins'["DATA_IN"] # pins["DATA_IN"]
          => pins["CLOCK"] = 0 /\ pins'["CLOCK"] = 0]_vars
  /\ [][(pins["CLOCK"] = 0 /\ pins'["CLOCK"] = 1)
          => /\ log # <<>>
             /\ log[Len(log)] = <<"DATA_IN", pins["DATA_IN"]>>]_vars
  /\ [][pins'["CLOCK"] # pins["CLOCK"]
          => pins["STRB"] = 0 /\ pins'["STRB"] = 0]_vars
  /\ [](/\ pins["CLOCK"] = 1 => pins["STRB"] = 0
        /\ pos.at \in {"data", "clockHigh", "clockLow", "strobeHigh"}
             => pins["STRB"] = 0)

\* after initHardware() a display() is in the column bits of row 2: DATA_IN
\* went from 0 to 1 while CLOCK was low, CLOCK is high now, STRB is low
WitnessBitClocked ==
  /\ pc = "shifting" /\ pos.at = "clockLow" /\ pos.loop = "col" /\ pos.row = 2
  /\ pre.millis = U32(INIT_DELAY)
  /\ pins = [CLOCK |-> 1, DATA_IN |-> 1, STRB |-> 0, OE |-> 0]
  /\ Len(log) > 4
  /\ log[Len(log) - 1] = <<"DATA_IN", 1>>
  /\ log[Len(log) - 2] = <<"CLOCK", 0>>
  /\ log[Len(log) - 4] = <<"DATA_IN", 0>>

====
